---- MODULE Spec2Model ----
(***************************************************************************)
(* Dungeon crawler (src/dungeon_crawler.c): graph generation, room         *)
(* content, room entry, bitwise combat and the save/load codec, as one     *)
(* state machine.  Every rand() call is a draw from RandVals; the code's    *)
(* "rand() % k" is computed on the drawn value.                             *)
(***************************************************************************)
EXTENDS Integers, Sequences, FiniteSets, TLC

\* ---- bounds of the model ----
\* room counts of a whole session (generation, play, save/load)
MaxRooms == 3
\* room counts of the generation-only specification
MaxGenRooms == 6
\* rand() returns a value of 0..MaxRand or one of the two bit patterns below
MaxRand == 1
\* the fight-only specification: potions and swords picked up before the fight
MaxPotions == 3
MaxSwords == 1
\* cap on the number of 16-bit values drawn in one fight
MaxDraws == 3
\* a variable that no fread filled holds a value of 0..MaxGarbage
MaxGarbage == 2

\* ---- program constants ----
MAX_NEIGHBORS == 4
BIT_ROUND_BITS == 16
NONE == 0
MONSTER == 1
ITEM == 2
TREASURE == 3
GOBLIN == 0
TROLL == 1
POTION == 0
SWORD == 1

\* room->content = NULL
NULL == [null |-> TRUE]

\* the values rand() may return: small values, 0x5555 and 0xFFFF
RandVals == (0..MaxRand) \cup {21845, 65535}

VARIABLES
    n,              \* room count
    rooms,          \* rooms[id]: neighbors, content_type, content, visited, enter
    player,         \* location (room id), hp, damage
    pc,             \* position of the program
    i,              \* loop index of create_dungeon / populate_rooms / fight
    e,              \* create_dungeon: extra-edge attempt index
    extras,         \* create_dungeon: attempts granted to room i
    treasure_room,  \* populate_rooms: the room that holds the treasure
    rnd,            \* fight: the 16-bit value of the current round
    stream,         \* the words save_game wrote, until load_game reads them
    consumed,       \* history: rooms whose monster was defeated or item taken
    draws,          \* history: the values drawn in the current fight
    start,          \* history: player and monster at the start of the fight
    last,           \* history: the last thing main did
    ub              \* history: undefined behaviour has been executed

vars == <<n, rooms, player, pc, i, e, extras, treasure_room, rnd, stream,
          consumed, draws, start, last, ub>>

\* ---- helpers ----

\* C's a % b for a >= 0 and b # 0: the result has the sign of the dividend
CRem(a, b) == IF b > 0 THEN a % b ELSE a % (0 - b)

\* number of times x occurs in list s
Count(x, s) == Cardinality({k \in 1..Len(s) : s[k] = x})

\* add_neighbor: the new node becomes the head of the list
add_neighbor_append(head, room) == head \o <<room>>
add_neighbor(head, room) == <<room>> \o head

\* the two add_neighbor calls that link rooms a and b
ConnectOneWay(rs, a, b) ==
    [rs EXCEPT ![a].neighbors = add_neighbor(rs[a].neighbors, b)]
Connect(rs, a, b) ==
    LET r1 == [rs EXCEPT ![a].neighbors = add_neighbor(rs[a].neighbors, b)]
    IN  [r1 EXCEPT ![b].neighbors = add_neighbor(r1[b].neighbors, a)]

\* the duplicate scan of the extra-edge pass
FoundNever(rs, a, j) == FALSE
Found(rs, a, j) == \E k \in 1..Len(rs[a].neighbors) : rs[a].neighbors[k] = j

\* the room a new dungeon starts with
NewRoom ==
    [neighbors |-> <<>>, content_type |-> NONE, content |-> NULL,
     visited |-> 0, enter |-> "enter_empty"]

\* player is not initialised before main sets it
NoPlayer == [location |-> 0, hp |-> 0, damage |-> 0]
NoStart == [php |-> 0, mhp |-> 0, pdmg |-> 0, mdmg |-> 0]

\* ---- create_dungeon ----

\* the earlier room that room k is linked to
TreeParentSelf(r, k) == r % (k + 1)
TreeParent(r, k) == r % k

\* where create_dungeon goes after finishing room k-1 of the extra-edge pass
AfterRoom(k) == IF k < n THEN "extra" ELSE "populate"

\* one iteration of the spanning-tree loop
TreeStep ==
    /\ pc = "tree"
    /\ \E r \in RandVals :
         rooms' = Connect(rooms, i, TreeParent(r, i))
    /\ IF i + 1 < n
         THEN i' = i + 1 /\ pc' = "tree"
         ELSE i' = 0 /\ pc' = "extra"
    /\ UNCHANGED <<ub, n, player, e, extras, treasure_room, rnd, stream,
                   consumed, draws, start, last>>

\* head of the extra-edge loop for room i: count the degree, draw extras
ExtraBegin ==
    /\ pc = "extra"
    /\ LET deg == Len(rooms[i].neighbors)
           m == MAX_NEIGHBORS - deg + 1
       IN  /\ m # 0
           /\ \E r \in RandVals :
                LET x == CRem(r, m)
                IN  /\ extras' = x
                    /\ e' = 0
                    /\ IF x > 0
                         THEN i' = i /\ pc' = "attempt"
                         ELSE i' = i + 1 /\ pc' = AfterRoom(i + 1)
    /\ UNCHANGED <<ub, n, rooms, player, treasure_room, rnd, stream,
                   consumed, draws, start, last>>

\* rand() % 0 when the degree is MAX_NEIGHBORS + 1: undefined behaviour.
\* The division traps (x86), or yields some value and the loop goes on.
ExtraBeginDivZero ==
    /\ pc = "extra"
    /\ MAX_NEIGHBORS - Len(rooms[i].neighbors) + 1 = 0
    /\ ub' = TRUE
    /\ \/ /\ pc' = "sigfpe"
          /\ UNCHANGED <<i, e, extras>>
       \/ \E x \in 0..MaxRand :
            /\ extras' = x
            /\ e' = 0
            /\ IF x > 0
                 THEN i' = i /\ pc' = "attempt"
                 ELSE i' = i + 1 /\ pc' = AfterRoom(i + 1)
    /\ UNCHANGED <<n, rooms, player, treasure_room, rnd, stream,
                   consumed, draws, start, last>>

\* one extra-edge attempt of room i
ExtraAttempt ==
    /\ pc = "attempt"
    /\ \E r \in RandVals :
         LET j == r % n
         IN  rooms' = IF j # i /\ ~Found(rooms, i, j)
                        THEN Connect(rooms, i, j)
                        ELSE rooms
    /\ IF e + 1 < extras
         THEN e' = e + 1 /\ i' = i /\ pc' = "attempt"
         ELSE e' = 0 /\ i' = i + 1 /\ pc' = AfterRoom(i + 1)
    /\ UNCHANGED <<ub, n, player, extras, treasure_room, rnd, stream,
                   consumed, draws, start, last>>

\* ---- populate_rooms ----

\* treasure_room = 1 + rand() % (n-1)
TreasureRoomAny(r, count) == r % count
TreasureRoom(r, count) == 1 + (r % (count - 1))

\* the fixed tables of populate_rooms
NewMonster(r) ==
    IF r % 2 = 0
      THEN [type |-> GOBLIN, hp |-> 8, damage |-> 5]
      ELSE [type |-> TROLL, hp |-> 12, damage |-> 3]
NewItem(r) ==
    IF r % 2 = 0
      THEN [type |-> POTION, hp_restore |-> 10, damage_boost |-> 0]
      ELSE [type |-> SWORD, hp_restore |-> 0, damage_boost |-> 2]

\* the treasure is placed first
PopulateTreasure ==
    /\ pc = "populate"
    /\ \E r \in RandVals :
         LET t == TreasureRoom(r, n)
         IN  /\ treasure_room' = t
             /\ rooms' = [rooms EXCEPT ![t].content_type = TREASURE,
                                       ![t].enter = "enter_treasure"]
    /\ i' = 1
    /\ pc' = "populate_rooms"
    /\ UNCHANGED <<ub, n, player, e, extras, rnd, stream, consumed, draws,
                   start, last>>

\* one iteration of the loop over rooms 1..n-1
PopulateRoom ==
    /\ pc = "populate_rooms"
    /\ i < n
    /\ IF i = treasure_room
         THEN rooms' = rooms
         ELSE \E r1 \in RandVals, r2 \in RandVals :
                LET choice == r1 % 3
                IN  rooms' =
                      IF choice = 1
                        THEN [rooms EXCEPT ![i].content_type = MONSTER,
                                           ![i].content = NewMonster(r2),
                                           ![i].enter = "enter_monster"]
                      ELSE IF choice = 2
                        THEN [rooms EXCEPT ![i].content_type = ITEM,
                                           ![i].content = NewItem(r2),
                                           ![i].enter = "enter_item"]
                      ELSE rooms
    /\ i' = i + 1
    /\ UNCHANGED <<ub, n, player, pc, e, extras, treasure_room, rnd, stream,
                   consumed, draws, start, last>>

\* main, after populate_rooms returned: the player starts in room 0
NewGame ==
    /\ pc = "populate_rooms"
    /\ i = n
    /\ player' = [location |-> 0, hp |-> 20, damage |-> 5]
    /\ pc' = "loop"
    /\ i' = 0
    /\ treasure_room' = 0
    /\ last' = "new"
    /\ UNCHANGED <<ub, n, rooms, e, extras, rnd, stream, consumed, draws, start>>

\* ---- room entry ----

cur == player.location

\* enter_empty
enter_empty_unmarked(room) == room
enter_empty(room) == [room EXCEPT !.visited = 1]

\* the room after its monster died (enter_monster) and the visit was recorded
MonsterDefeatedKeep(room) == [room EXCEPT !.visited = 1]
MonsterDefeated(room) ==
    [room EXCEPT !.content = NULL, !.content_type = NONE,
                 !.enter = "enter_empty", !.visited = 1]

\* the room after its item was taken (enter_item)
ItemTakenUnvisited(room) ==
    [room EXCEPT !.content = NULL, !.content_type = NONE,
                 !.enter = "enter_empty"]
ItemTakenKeepHandler(room) ==
    [room EXCEPT !.content = NULL, !.content_type = NONE, !.visited = 1]
ItemTakenKept(room) == [room EXCEPT !.visited = 1]
ItemTaken(room) ==
    [room EXCEPT !.content = NULL, !.content_type = NONE,
                 !.enter = "enter_empty", !.visited = 1]

\* the player after taking item it
ApplyItemHpOnly(p, it) == [p EXCEPT !.hp = p.hp + it.hp_restore]
ApplyItem(p, it) ==
    [p EXCEPT !.hp = IF it.hp_restore # 0 THEN p.hp + it.hp_restore ELSE p.hp,
              !.damage = IF it.damage_boost # 0
                           THEN p.damage + it.damage_boost ELSE p.damage]

\* enter_treasure prints the win and writes nothing
enter_treasure_visited(room) == [room EXCEPT !.visited = 1]
enter_treasure(room) == room

\* main: the current room holds the treasure; enter_treasure, break
EnterTreasure ==
    /\ pc = "loop"
    /\ rooms[cur].content_type = TREASURE
    /\ rooms' = [rooms EXCEPT ![cur] = enter_treasure(rooms[cur])]
    /\ pc' = "won"
    /\ last' = "enter_treasure"
    /\ UNCHANGED <<ub, n, player, i, e, extras, treasure_room, rnd,
                   stream, consumed, draws, start>>

\* cur->enter is enter_empty, or enter_monster / enter_item on a visited room
EnterEmpty ==
    /\ pc = "loop"
    /\ rooms[cur].content_type # TREASURE
    /\ \/ rooms[cur].enter = "enter_empty"
       \/ rooms[cur].enter \in {"enter_monster", "enter_item"}
            /\ rooms[cur].visited # 0
    /\ rooms' = [rooms EXCEPT ![cur] = enter_empty(rooms[cur])]
    /\ pc' = "prompt"
    /\ last' = "enter_empty"
    /\ UNCHANGED <<ub, n, player, i, e, extras, treasure_room, rnd, stream,
                   consumed, draws, start>>

\* cur->enter is enter_item on an unvisited room
EnterItem ==
    /\ pc = "loop"
    /\ rooms[cur].content_type # TREASURE
    /\ rooms[cur].enter = "enter_item"
    /\ rooms[cur].visited = 0
    /\ player' = ApplyItem(player, rooms[cur].content)
    /\ rooms' = [rooms EXCEPT ![cur] = ItemTaken(rooms[cur])]
    /\ consumed' = consumed \cup {cur}
    /\ pc' = "prompt"
    /\ last' = "enter_item"
    /\ UNCHANGED <<ub, n, i, e, extras, treasure_room, rnd, stream, draws, start>>

\* cur->enter is enter_monster on an unvisited room: fight is called
EnterMonster ==
    /\ pc = "loop"
    /\ rooms[cur].content_type # TREASURE
    /\ rooms[cur].enter = "enter_monster"
    /\ rooms[cur].visited = 0
    /\ pc' = "fight"
    /\ draws' = <<>>
    /\ start' = [php |-> player.hp, mhp |-> rooms[cur].content.hp,
                 pdmg |-> player.damage, mdmg |-> rooms[cur].content.damage]
    /\ last' = "enter_monster"
    /\ UNCHANGED <<ub, n, rooms, player, i, e, extras, treasure_room, rnd,
                   stream, consumed>>

\* ---- fight ----

mon == rooms[cur].content
BothAlive == player.hp > 0 /\ mon.hp > 0

\* bit k of the round's value
BitFromTop(v, k) == (v \div (2 ^ (BIT_ROUND_BITS - 1 - k))) % 2
Bit(v, k) == (v \div (2 ^ k)) % 2

\* the while loop's test holds: draw the round's value
\* (MaxDraws bounds the history draws; C7 fails if the bound is ever met)
FightDraw ==
    /\ pc = "fight"
    /\ BothAlive
    /\ Len(draws) < MaxDraws
    /\ \E r \in RandVals :
         /\ rnd' = r % (2 ^ BIT_ROUND_BITS)
         /\ draws' = Append(draws, r % (2 ^ BIT_ROUND_BITS))
    /\ i' = 0
    /\ pc' = "round"
    /\ UNCHANGED <<ub, n, rooms, player, e, extras, treasure_room, stream,
                   consumed, start, last>>

\* one turn of the inner for loop
FightTurnPlayerOnly ==
    /\ pc = "round"
    /\ i < BIT_ROUND_BITS
    /\ BothAlive
    /\ IF Bit(rnd, i) = 0
         THEN rooms' = rooms
         ELSE rooms' = [rooms EXCEPT ![cur].content.hp =
                                       mon.hp - player.damage]
    /\ player' = player
    /\ i' = i + 1
    /\ pc' = IF i + 1 < BIT_ROUND_BITS /\ rooms'[cur].content.hp > 0
               THEN "round" ELSE "fight"
    /\ UNCHANGED <<ub, n, e, extras, treasure_room, rnd, stream, consumed,
                   draws, start, last>>
FightTurnNoCheck ==
    /\ pc = "round"
    /\ i < BIT_ROUND_BITS
    /\ IF Bit(rnd, i) = 0
         THEN /\ player' = [player EXCEPT !.hp = player.hp - mon.damage]
              /\ rooms' = rooms
         ELSE /\ rooms' = [rooms EXCEPT ![cur].content.hp =
                                          mon.hp - player.damage]
              /\ player' = player
    /\ i' = i + 1
    /\ pc' = IF i + 1 < BIT_ROUND_BITS THEN "round" ELSE "fight"
    /\ UNCHANGED <<ub, n, e, extras, treasure_room, rnd, stream, consumed,
                   draws, start, last>>
FightTurn ==
    /\ pc = "round"
    /\ i < BIT_ROUND_BITS
    /\ BothAlive
    /\ IF Bit(rnd, i) = 0
         THEN /\ player' = [player EXCEPT !.hp = player.hp - mon.damage]
              /\ rooms' = rooms
         ELSE /\ rooms' = [rooms EXCEPT ![cur].content.hp =
                                          mon.hp - player.damage]
              /\ player' = player
    /\ i' = i + 1
    /\ pc' = IF i + 1 < BIT_ROUND_BITS /\ player'.hp > 0
                  /\ rooms'[cur].content.hp > 0
               THEN "round" ELSE "fight"
    /\ UNCHANGED <<ub, n, e, extras, treasure_room, rnd, stream, consumed,
                   draws, start, last>>

\* the while loop ended with the player dead: exit(0)
FightDeath ==
    /\ pc = "fight"
    /\ ~BothAlive
    /\ player.hp <= 0
    /\ pc' = "dead"
    /\ UNCHANGED <<ub, n, rooms, player, i, e, extras, treasure_room, rnd,
                   stream, consumed, draws, start, last>>

\* fight returns to enter_monster, which clears the room and marks it
FightReturn ==
    /\ pc = "fight"
    /\ ~BothAlive
    /\ player.hp > 0
    /\ rooms' = [rooms EXCEPT ![cur] =
                   IF mon.hp <= 0 THEN MonsterDefeated(rooms[cur])
                                  ELSE enter_empty(rooms[cur])]
    /\ consumed' = IF mon.hp <= 0 THEN consumed \cup {cur} ELSE consumed
    /\ pc' = "prompt"
    /\ i' = 0
    /\ rnd' = 0
    /\ draws' = <<>>
    /\ start' = NoStart
    /\ last' = "fight_won"
    /\ UNCHANGED <<ub, n, player, e, extras, treasure_room, stream>>

\* ---- save_game ----

\* the words written for a monster / an item
MonsterWordsNoHp(m) == <<m.type, m.damage, m.damage>>
MonsterWords(m) == <<m.type, m.hp, m.damage>>
ItemWords(it) == <<it.type>>

\* the words written for one room
RoomWords(r) ==
    <<r.visited, r.content_type>>
      \o (IF r.content_type = MONSTER THEN MonsterWords(r.content)
          ELSE IF r.content_type = ITEM THEN ItemWords(r.content)
          ELSE <<>>)
      \o <<Len(r.neighbors)>>
      \o r.neighbors

RECURSIVE SaveRooms(_, _, _)
SaveRooms(rs, k, cnt) ==
    IF k >= cnt THEN <<>> ELSE RoomWords(rs[k]) \o SaveRooms(rs, k + 1, cnt)

save_game(cnt, p, rs) ==
    <<cnt, p.location, p.hp, p.damage>> \o SaveRooms(rs, 0, cnt)

\* ---- load_game ----

\* the item stats load_game derives from the item type
LoadedItem(itp) ==
    IF itp = POTION
      THEN [type |-> itp, hp_restore |-> 10, damage_boost |-> 0]
      ELSE [type |-> itp, hp_restore |-> 0, damage_boost |-> 2]

\* add_neighbor for each stored id, in stored order
RECURSIVE LinkAll(_, _)
LinkAll(head, ids) ==
    IF ids = <<>> THEN head
    ELSE LinkAll(add_neighbor(head, Head(ids)), Tail(ids))

\* one iteration of the room loop, reading at position pos of s
LoadRoom(s, pos) ==
    LET visited == s[pos]
        ct == s[pos + 1]
        plen == IF ct = MONSTER THEN 3 ELSE IF ct = ITEM THEN 1 ELSE 0
        content ==
            IF ct = MONSTER
              THEN [type |-> s[pos + 2], hp |-> s[pos + 3],
                    damage |-> s[pos + 4]]
            ELSE IF ct = ITEM THEN LoadedItem(s[pos + 2])
            ELSE NULL
        enter ==
            IF ct = MONSTER THEN "enter_monster"
            ELSE IF ct = ITEM THEN "enter_item"
            ELSE IF ct = TREASURE THEN "enter_treasure"
            ELSE "enter_empty"
        dpos == pos + 2 + plen
        deg == s[dpos]
        ids == SubSeq(s, dpos + 1, dpos + deg)
    IN  [room |-> [neighbors |-> LinkAll(<<>>, ids), content_type |-> ct,
                   content |-> content, visited |-> visited,
                   enter |-> enter],
         next |-> dpos + deg + 1]

RECURSIVE LoadRooms(_, _, _, _, _)
LoadRooms(s, pos, k, cnt, acc) ==
    IF k >= cnt THEN acc
    ELSE LET lr == LoadRoom(s, pos)
         IN  LoadRooms(s, lr.next, k + 1, cnt, [acc EXCEPT ![k] = lr.room])

load_game(s) ==
    LET cnt == s[1]
    IN  [n |-> cnt,
         player |-> [location |-> s[2], hp |-> s[3], damage |-> s[4]],
         rooms |-> LoadRooms(s, 5, 0, cnt, [id \in 0..(cnt - 1) |-> NewRoom])]

\* ---- the door prompt of main ----

\* find_neighbor: the room with that id in current's list, or NULL
find_neighbor_head(current, id) ==
    [found |-> current.neighbors # <<>> /\ Head(current.neighbors) = id,
     room |-> id]
find_neighbor(current, id) ==
    [found |-> \E k \in 1..Len(current.neighbors) : current.neighbors[k] = id,
     room |-> id]

\* cleanup: every room, its content and its list are freed
FreedRooms == <<>>

\* the numbers scanf may read, other than -1: a negative one, every room id,
\* and an id past the last room
Choices == ((0 - 2)..n) \ {0 - 1}

\* the number choice was typed: find_neighbor, then move or report
Door(choice) ==
    /\ pc = "prompt"
    /\ LET dest == find_neighbor(rooms[cur], choice)
       IN  IF dest.found
             THEN /\ player' = [player EXCEPT !.location = dest.room]
                  /\ last' = "move"
             ELSE /\ player' = player
                  /\ last' = "invalid"
    /\ pc' = "loop"
    /\ UNCHANGED <<ub, n, rooms, i, e, extras, treasure_room, rnd, stream,
                   consumed, draws, start>>

\* a number other than -1 was typed
ChooseDoor == \E choice \in Choices : Door(choice)

\* -1 was typed: save_game, break, cleanup
SaveAndQuit ==
    /\ pc = "prompt"
    /\ stream' = save_game(n, player, rooms)
    /\ rooms' = FreedRooms
    /\ player' = NoPlayer
    /\ pc' = "saved"
    /\ last' = "save"
    /\ UNCHANGED <<ub, n, i, e, extras, treasure_room, rnd, consumed, draws,
                   start>>

\* scanf read no number: break, cleanup
InputEnd ==
    /\ pc = "prompt"
    /\ rooms' = FreedRooms
    /\ player' = NoPlayer
    /\ pc' = "quit"
    /\ last' = "quit"
    /\ UNCHANGED <<ub, n, i, e, extras, treasure_room, rnd, stream, consumed,
                   draws, start>>

\* main after the treasure's break: cleanup, return
Cleanup ==
    /\ pc = "won"
    /\ rooms' = FreedRooms
    /\ player' = NoPlayer
    /\ pc' = "exit"
    /\ UNCHANGED <<ub, n, i, e, extras, treasure_room, rnd, stream, consumed,
                   draws, start, last>>

\* a later run of main is given the saved stream: load_game returns the
\* rooms and the game loop starts
LoadGame ==
    /\ pc = "saved"
    /\ LET L == load_game(stream)
       IN  /\ n' = L.n
           /\ player' = L.player
           /\ rooms' = L.rooms
    /\ stream' = <<>>
    /\ pc' = "loop"
    /\ last' = "load"
    /\ UNCHANGED <<ub, i, e, extras, treasure_room, rnd, consumed, draws, start>>

\* ---- the generation-only specification ----

InitFor(maxn) ==
    /\ n \in 2..maxn
    /\ rooms = [id \in 0..(n - 1) |-> NewRoom]
    /\ player = NoPlayer
    /\ pc = "tree"
    /\ i = 1
    /\ e = 0
    /\ extras = 0
    /\ treasure_room = 0
    /\ rnd = 0
    /\ stream = <<>>
    /\ consumed = {}
    /\ draws = <<>>
    /\ start = NoStart
    /\ last = "start"
    /\ ub = FALSE

InitGen == InitFor(MaxGenRooms)

NextGen ==
    \/ TreeStep
    \/ ExtraBegin
    \/ ExtraBeginDivZero
    \/ ExtraAttempt

SpecGen == InitGen /\ [][NextGen]_vars

\* ---- the whole session ----
\* (ExtraBeginDivZero needs a room of degree 5, hence 6 rooms: it is part of
\*  SpecGen only)

Init == InitFor(MaxRooms)

Next ==
    \/ TreeStep
    \/ ExtraBegin
    \/ ExtraAttempt
    \/ PopulateTreasure
    \/ PopulateRoom
    \/ NewGame
    \/ EnterTreasure
    \/ EnterEmpty
    \/ EnterItem
    \/ EnterMonster
    \/ FightDraw
    \/ FightTurn
    \/ FightDeath
    \/ FightReturn
    \/ ChooseDoor
    \/ SaveAndQuit
    \/ InputEnd
    \/ Cleanup
    \/ LoadGame

Spec == Init /\ [][Next]_vars

\* ---- one fight, from every player the game can bring to a monster ----
\* The player reaches the monster with hp 20 + 10 per potion - 5 or 3 per hit
\* taken, and damage 5 + 2 per sword; the monster is fresh.  The rooms around
\* the fight are the chain 0 - 1 - 2 with the monster in room 1.

InitFight ==
    /\ n = 3
    /\ \E r \in RandVals :
         rooms = [id \in 0..2 |->
                    IF id = 0
                      THEN [NewRoom EXCEPT !.neighbors = <<1>>, !.visited = 1]
                    ELSE IF id = 1
                      THEN [NewRoom EXCEPT !.neighbors = <<2, 0>>,
                                           !.content_type = MONSTER,
                                           !.content = NewMonster(r),
                                           !.enter = "enter_monster"]
                    ELSE [NewRoom EXCEPT !.neighbors = <<1>>,
                                         !.content_type = TREASURE,
                                         !.enter = "enter_treasure"]]
    /\ \E hp \in 1..(20 + 10 * MaxPotions), k \in 0..MaxSwords :
         player = [location |-> 1, hp |-> hp, damage |-> 5 + 2 * k]
    /\ pc = "loop"
    /\ i = 0
    /\ e = 0
    /\ extras = 0
    /\ treasure_room = 0
    /\ rnd = 0
    /\ stream = <<>>
    /\ consumed = {}
    /\ draws = <<>>
    /\ start = NoStart
    /\ last = "move"
    /\ ub = FALSE

FightStep == EnterMonster \/ FightDraw \/ FightTurn \/ FightDeath \/ FightReturn

NextFight ==
    \/ EnterMonster
    \/ FightDraw
    \/ FightTurn
    \/ FightDeath
    \/ FightReturn

FightSpec == InitFight /\ [][NextFight]_vars

\* fight runs on once called: the program takes its next step
FairFightSpec == FightSpec /\ WF_vars(FightStep)

\* ---- load_game on an arbitrary save file ----
\* load_game checks no fread result: an fread at the end of the file stores
\* nothing and the variable keeps an indeterminate value.  rooms[id] with id
\* outside 0..n-1 reads past the malloc'ed array: the pointer it yields is
\* kept in the model as the id itself.

GarbageVals == 0..MaxGarbage

\* words enough for every read load_game can make
PadLen == 4 + (MaxRooms + MaxGarbage + 1) * (6 + MAX_NEIGHBORS + MaxGarbage)

\* the file's words followed by what the unfilled variables hold
Pad(s, g1, g2) == s \o [k \in 1..PadLen |-> IF k % 2 = 1 THEN g1 ELSE g2]

\* the position after the last word load_game reads
RECURSIVE EndPos(_, _, _, _)
EndPos(s, pos, k, cnt) ==
    IF k >= cnt THEN pos ELSE EndPos(s, LoadRoom(s, pos).next, k + 1, cnt)

\* load_game reads past the end of file s
Truncated(s) == EndPos(Pad(s, 0, 0), 5, 0, Pad(s, 0, 0)[1]) > Len(s) + 1

\* a room index load_game uses is outside the array
OutOfRange(L) ==
    \/ L.player.location \notin 0..(L.n - 1)
    \/ \E id \in 0..(L.n - 1) : \E k \in 1..Len(L.rooms[id].neighbors) :
         L.rooms[id].neighbors[k] \notin 0..(L.n - 1)

\* a session of three rooms 0 - 1 - 2 at a door prompt in room 0, the
\* treasure in room 2, room 1 as populate_rooms fills it
SampleRooms(r1, r2) ==
    [id \in 0..2 |->
       IF id = 0 THEN [NewRoom EXCEPT !.neighbors = <<1>>, !.visited = 1]
       ELSE IF id = 1
         THEN IF r1 % 3 = 1
                THEN [NewRoom EXCEPT !.neighbors = <<2, 0>>,
                                     !.content_type = MONSTER,
                                     !.content = NewMonster(r2),
                                     !.enter = "enter_monster"]
              ELSE IF r1 % 3 = 2
                THEN [NewRoom EXCEPT !.neighbors = <<2, 0>>,
                                     !.content_type = ITEM,
                                     !.content = NewItem(r2),
                                     !.enter = "enter_item"]
              ELSE [NewRoom EXCEPT !.neighbors = <<2, 0>>]
       ELSE [NewRoom EXCEPT !.neighbors = <<1>>, !.content_type = TREASURE,
                            !.enter = "enter_treasure"]]

SampleStreams ==
    {save_game(3, [location |-> 0, hp |-> 20, damage |-> 5],
               SampleRooms(r1, r2)) : r1 \in 0..2, r2 \in 0..1}

\* the files given to load_game: a save, a save cut short after k words, and
\* a save whose player room (word 2) or last neighbor id holds the room count
SaveFiles ==
    UNION {{SubSeq(s, 1, k) : k \in 0..Len(s)}
             \cup {[s EXCEPT ![pos] = s[1]] : pos \in {2, Len(s)}}
           : s \in SampleStreams}

InitLoad ==
    /\ n = 0
    /\ rooms = FreedRooms
    /\ player = NoPlayer
    /\ pc = "file"
    /\ i = 0
    /\ e = 0
    /\ extras = 0
    /\ treasure_room = 0
    /\ rnd = 0
    /\ \/ stream \in SaveFiles /\ last = "file"
       \/ stream = <<>> /\ last = "nofile"
    /\ consumed = {}
    /\ draws = <<>>
    /\ start = NoStart
    /\ ub = FALSE

\* fopen fails: load_game returns NULL and main returns 1
LoadNoFile ==
    /\ pc = "file"
    /\ last = "nofile"
    /\ pc' = "load_failed"
    /\ UNCHANGED <<ub, n, rooms, player, i, e, extras, treasure_room, rnd,
                   stream, consumed, draws, start, last>>

\* load_game on the file, whatever it holds; main goes on to the game loop.
\* With a room index outside the array the program crashes or goes on with
\* the pointer found there.
LoadFile ==
    /\ pc = "file"
    /\ last = "file"
    /\ \E g1 \in GarbageVals, g2 \in GarbageVals :
         LET L == load_game(Pad(stream, g1, g2))
         IN  /\ n' = L.n
             /\ player' = L.player
             /\ rooms' = L.rooms
             /\ ub' = (Truncated(stream) \/ OutOfRange(L))
             /\ IF OutOfRange(L)
                  THEN pc' \in {"sigsegv", "loop"}
                  ELSE pc' = "loop"
    /\ last' = "load"
    /\ UNCHANGED <<i, e, extras, treasure_room, rnd, stream, consumed, draws,
                   start>>

NextLoad ==
    \/ LoadNoFile
    \/ LoadFile

SpecLoad == InitLoad /\ [][NextLoad]_vars

\* ---- properties ----

Ids == 0..(n - 1)

\* create_dungeon has returned and the rooms are in memory
GraphPcs == {"populate", "populate_rooms", "loop", "prompt", "fight",
             "round", "dead", "won"}

\* a session: the rooms are populated and the player is placed
PlayPcs == {"loop", "prompt", "fight", "round", "dead", "won"}

\* the rooms reachable from the rooms of S along neighbor links
RECURSIVE ReachFrom(_, _)
ReachFrom(rs, S) ==
    LET T == S \cup UNION {{rs[a].neighbors[k] : k \in 1..Len(rs[a].neighbors)}
                             : a \in S}
    IN  IF T = S THEN S ELSE ReachFrom(rs, T)

\* C1: once create_dungeon has returned, and in every later state of the
\* session (play, and after save_game and load_game), every room is reachable
\* from room 0 along neighbor links.
C1_Connected == [](pc \in GraphPcs => ReachFrom(rooms, {0}) = Ids)

C1_Witness ==
    /\ pc = "loop"
    /\ last = "load"
    /\ n >= 3
    /\ ReachFrom(rooms, {0}) = Ids
    /\ Len(rooms[0].neighbors) = 1

\* C2: when create_dungeon has finished (every step of it defined), no
\* neighbor list has more than MAX_NEIGHBORS entries.
C2_DegreeBound ==
    (pc = "populate" /\ ~ub) =>
      \A id \in Ids : Len(rooms[id].neighbors) <= MAX_NEIGHBORS

\* the session load_game builds from what save_game writes of this session
Reloaded == load_game(save_game(n, player, rooms))

SameRoom(a, b) ==
    /\ a.visited = b.visited
    /\ a.content_type = b.content_type
    /\ a.content_type = MONSTER =>
         /\ a.content.type = b.content.type
         /\ a.content.hp = b.content.hp
         /\ a.content.damage = b.content.damage
    /\ a.content_type = ITEM => a.content.type = b.content.type
    /\ Len(a.neighbors) = Len(b.neighbors)
    /\ \A x \in Ids : Count(x, a.neighbors) = Count(x, b.neighbors)

\* C3: load_game of the stream save_game writes gives the same room count,
\* the same player (location, hp, damage) and, room by room, the same visited
\* flag, content type, monster type/hp/damage, item type and multiset of
\* neighbor ids.
C3_RoundTrip ==
    pc \in PlayPcs =>
      LET L == Reloaded
      IN  /\ L.n = n
          /\ L.player.location = player.location
          /\ L.player.hp = player.hp
          /\ L.player.damage = player.damage
          /\ DOMAIN L.rooms = Ids
          /\ \A id \in Ids : SameRoom(L.rooms[id], rooms[id])

C3_Witness ==
    /\ pc = "loop"
    /\ last = "load"
    /\ \E id \in Ids : rooms[id].content_type = MONSTER /\ rooms[id].visited = 0
    /\ \E id \in Ids : Len(rooms[id].neighbors) >= 2

\* C4: in every session state exactly one room holds the treasure, and it is
\* not room 0.
C4_OneTreasure ==
    [](pc \in PlayPcs =>
         /\ Cardinality({id \in Ids : rooms[id].content_type = TREASURE}) = 1
         /\ rooms[0].content_type # TREASURE)

C4_Witness ==
    /\ pc = "prompt"
    /\ consumed # {}
    /\ \E id \in Ids \ {0} : rooms[id].content_type = TREASURE
    /\ \E id \in Ids : Len(rooms[id].neighbors) >= 2 /\ rooms[id].visited = 1

\* C5: once create_dungeon has returned, and in every later state of the
\* session, room b occurs in room a's list as often as a occurs in b's.
C5_Symmetric ==
    pc \in GraphPcs =>
      \A a \in Ids : \A b \in Ids \ {a} :
        Count(b, rooms[a].neighbors) = Count(a, rooms[b].neighbors)

C5_Witness ==
    /\ pc = "loop"
    /\ last = "load"
    /\ \E a \in Ids, b \in Ids :
         /\ a # b
         /\ Count(b, rooms[a].neighbors) = 1
         /\ Count(a, rooms[b].neighbors) = 1
         /\ Len(rooms[a].neighbors) >= 2

\* C6: a room whose monster was defeated or whose item was taken stays Empty
\* and visited, and entering it again changes neither the rooms nor the
\* player: no fight, no item effect.
C6_Idempotent ==
    /\ [](pc \in PlayPcs =>
            \A id \in consumed :
              /\ rooms[id].content_type = NONE
              /\ rooms[id].content = NULL
              /\ rooms[id].visited = 1)
    /\ [][(pc = "loop" /\ cur \in consumed) =>
            (pc' = "prompt" /\ rooms' = rooms /\ player' = player
             /\ n' = n)]_vars

C6_Witness ==
    /\ pc = "prompt"
    /\ last = "enter_empty"
    /\ cur \in consumed

\* the reference fold of the combat protocol over the drawn values
RefAlive(st) == st.php > 0 /\ st.mhp > 0

RefTurn(st, bit) ==
    IF bit = 0 THEN [st EXCEPT !.php = st.php - st.mdmg]
               ELSE [st EXCEPT !.mhp = st.mhp - st.pdmg]

\* bits k .. lim-1 of value v, lowest first, until someone is down
RECURSIVE RefRound(_, _, _, _)
RefRound(st, v, k, lim) ==
    IF k >= lim \/ ~RefAlive(st) THEN st
    ELSE RefRound(RefTurn(st, (v \div (2 ^ k)) % 2), v, k + 1, lim)

\* whole rounds over the values ds; unused counts the values never needed
RECURSIVE RefFight(_, _)
RefFight(st, ds) ==
    IF ds = <<>> \/ ~RefAlive(st) THEN [st |-> st, unused |-> Len(ds)]
    ELSE RefFight(RefRound(st, Head(ds), 0, BIT_ROUND_BITS), Tail(ds))

Front(ds) == SubSeq(ds, 1, Len(ds) - 1)

\* C7: a fight that has started ends: the program reaches the death exit or
\* returns to the door prompt, whatever values are drawn.
C7_FightTerminates ==
    (pc \in {"fight", "round"}) ~> (pc \in {"dead", "prompt"})

C7_Witness ==
    /\ pc = "dead"
    /\ Len(draws) = 2
    /\ player.hp <= 0

\* C8: at every point of a fight the two hp values are those of the reference
\* fold: bits are read from bit 0 upwards, a 0 bit costs the player
\* monster.damage, a 1 bit costs the monster player.damage, no turn follows a
\* hp <= 0, and a value is drawn only when the one before was used up with
\* both alive.
C8_TurnProtocol ==
    /\ pc = "fight" =>
         LET f == RefFight(start, draws)
         IN  /\ f.unused = 0
             /\ f.st.php = player.hp
             /\ f.st.mhp = mon.hp
             /\ BothAlive => \A k \in 1..Len(draws) :
                  RefAlive(RefFight(start, SubSeq(draws, 1, k)).st)
    /\ pc = "round" =>
         LET f == RefFight(start, Front(draws))
             g == RefRound(f.st, rnd, 0, i)
         IN  /\ draws # <<>>
             /\ rnd = draws[Len(draws)]
             /\ f.unused = 0
             /\ g.php = player.hp
             /\ g.mhp = mon.hp
             /\ i < BIT_ROUND_BITS
             /\ BothAlive

C8_Witness ==
    /\ pc = "fight"
    /\ Len(draws) = 2
    /\ mon.hp <= 0
    /\ player.hp > 0

\* the fixed item table: Potion +10 hp, Sword +2 damage
TableHp(t) == IF t = POTION THEN 10 ELSE 0
TableDamage(t) == IF t = SWORD THEN 2 ELSE 0

\* C9: entering an unvisited Item room adds the item's table values to the
\* player's hp and damage, empties the room and marks it visited, and leaves
\* the player's location, the other rooms and every neighbor list alone.
C9_ItemPickup ==
    [][(pc = "loop" /\ rooms[cur].content_type = ITEM
          /\ rooms[cur].visited = 0) =>
         /\ player'.hp = player.hp + TableHp(rooms[cur].content.type)
         /\ player'.damage = player.damage
                               + TableDamage(rooms[cur].content.type)
         /\ player'.location = player.location
         /\ rooms'[cur].content_type = NONE
         /\ rooms'[cur].content = NULL
         /\ rooms'[cur].visited = 1
         /\ rooms'[cur].neighbors = rooms[cur].neighbors
         /\ \A id \in Ids \ {cur} : rooms'[id] = rooms[id]
         /\ n' = n
         /\ pc' = "prompt"]_vars

C9_Witness ==
    /\ pc = "prompt"
    /\ last = "enter_item"
    /\ player.hp = 30
    /\ rooms[cur].content_type = NONE
    /\ rooms[cur].visited = 1

\* C10: entering an unvisited Monster room runs fight; when the monster is
\* down the room becomes Empty and visited; when the player is down the
\* program ends there, the room still Monster and unvisited, and nothing
\* happens afterwards.
C10_MonsterEntry ==
    /\ [][(pc = "loop" /\ rooms[cur].content_type = MONSTER
             /\ rooms[cur].visited = 0) =>
            (pc' = "fight" /\ rooms' = rooms /\ player' = player)]_vars
    /\ [][(pc = "fight" /\ mon.hp <= 0) =>
            /\ pc' = "prompt"
            /\ rooms'[cur].content_type = NONE
            /\ rooms'[cur].visited = 1
            /\ player' = player]_vars
    /\ [][(pc = "fight" /\ player.hp <= 0) =>
            (pc' = "dead" /\ rooms' = rooms /\ player' = player)]_vars
    /\ [](pc = "dead" =>
            /\ player.hp <= 0
            /\ rooms[cur].content_type = MONSTER
            /\ rooms[cur].visited = 0)
    /\ [][pc # "dead"]_vars

C10_Witness ==
    /\ pc = "dead"
    /\ player.hp <= 0
    /\ rooms[cur].content_type = MONSTER
    /\ mon.hp > 0

\* C11: when the current room holds the treasure the program goes straight to
\* its end: the step changes no room and not the player, no door prompt, move
\* or save follows, and the treasure room is still unvisited with content
\* Treasure.
C11_TreasureWin ==
    /\ [][(pc = "loop" /\ rooms[cur].content_type = TREASURE) =>
            (pc' = "won" /\ rooms' = rooms /\ player' = player /\ n' = n
             /\ stream' = stream)]_vars
    /\ [][pc = "won" => (pc' = "exit" /\ stream' = stream)]_vars
    /\ [][pc # "exit"]_vars
    /\ [](pc \in PlayPcs =>
            \A id \in Ids :
              rooms[id].content_type = TREASURE =>
                rooms[id].visited = 0 /\ rooms[id].content = NULL)
    /\ [](pc = "won" => rooms[cur].content_type = TREASURE)

C11_Witness ==
    /\ pc = "won"
    /\ last = "enter_treasure"
    /\ rooms[cur].content_type = TREASURE
    /\ rooms[cur].visited = 0
    /\ consumed # {}

\* C12: a door choice t moves the player to t exactly when t is in the
\* current room's list; any other choice changes neither the player nor a
\* room, and the room entry that follows it changes nothing either.  The
\* player is always in a room reachable from room 0.
C12_Movement ==
    /\ [][\A t \in Choices :
            Door(t) =>
              /\ rooms' = rooms
              /\ n' = n
              /\ player'.hp = player.hp
              /\ player'.damage = player.damage
              /\ player'.location =
                    IF \E k \in 1..Len(rooms[cur].neighbors) :
                            rooms[cur].neighbors[k] = t
                      THEN t ELSE cur
              /\ pc' = "loop"]_vars
    /\ [][(pc = "loop" /\ last = "invalid") =>
            (pc' = "prompt" /\ rooms' = rooms /\ player' = player)]_vars
    /\ [](pc \in PlayPcs => cur \in ReachFrom(rooms, {0}) /\ cur \in Ids)

C12_Witness ==
    /\ pc = "loop"
    /\ last = "invalid"
    /\ cur # 0
    /\ Len(rooms[cur].neighbors) >= 2

\* C13: load_game of a file that ends before a word it needs, or that holds
\* a player room or neighbor id outside 0..n-1, ends in the failure return
\* and builds no session.
C13_DecodeValidation ==
    (pc # "file" /\ (Truncated(stream) \/ OutOfRange(load_game(Pad(stream, 0, 0)))))
      => pc = "load_failed"

\* the handler populate_rooms and load_game install for a content type
HandlerOf(ct) ==
    IF ct = MONSTER THEN "enter_monster"
    ELSE IF ct = ITEM THEN "enter_item"
    ELSE IF ct = TREASURE THEN "enter_treasure"
    ELSE "enter_empty"

\* C14: in every session state each room's handler is the one of its content
\* type, a Monster room holds a monster, an Item room holds an item, and an
\* Empty or Treasure room holds nothing.
C14_ContentHandler ==
    [](pc \in PlayPcs =>
         \A id \in Ids :
           /\ rooms[id].content_type \in {NONE, MONSTER, ITEM, TREASURE}
           /\ rooms[id].enter = HandlerOf(rooms[id].content_type)
           /\ rooms[id].content_type = MONSTER <=>
                (rooms[id].content # NULL
                 /\ "hp" \in DOMAIN rooms[id].content)
           /\ rooms[id].content_type = ITEM <=>
                (rooms[id].content # NULL
                 /\ "hp_restore" \in DOMAIN rooms[id].content)
           /\ rooms[id].content_type \in {NONE, TREASURE} <=>
                rooms[id].content = NULL)

C14_Witness ==
    /\ pc = "loop"
    /\ last = "load"
    /\ consumed # {}
    /\ \E id \in Ids : rooms[id].enter = "enter_treasure"
    /\ \A id \in consumed : rooms[id].enter = "enter_empty"

\* C15: at every door prompt, and in the session load_game builds from a
\* save made there, every visited room is Empty: none is visited and still
\* Monster or Item.
C15_VisitedEmpty ==
    []((pc = "prompt" \/ (pc = "loop" /\ last = "load")) =>
         \A id \in Ids :
           rooms[id].visited # 0 =>
             rooms[id].content_type = NONE /\ rooms[id].content = NULL)

C15_Witness ==
    /\ pc = "prompt"
    /\ last = "fight_won"
    /\ rooms[cur].visited = 1
    /\ rooms[cur].content_type = NONE
    /\ \E id \in Ids : rooms[id].visited = 0

\* C16: at the head of the extra-edge loop of every room i, the divisor
\* MAX_NEIGHBORS - deg + 1 of the budget's remainder is positive: the budget
\* is never a remainder by zero or by a negative number.
C16_ExtraBudget ==
    pc = "extra" => MAX_NEIGHBORS - Len(rooms[i].neighbors) + 1 > 0

\* C17: while create_dungeon runs and when it has returned, no room is in
\* its own list and no id occurs twice in a list.
C17_NoSelfNoDuplicate ==
    pc \in {"tree", "extra", "attempt", "populate"} =>
      \A a \in Ids :
        /\ Count(a, rooms[a].neighbors) = 0
        /\ \A b \in Ids : Count(b, rooms[a].neighbors) <= 1
        /\ Len(rooms[a].neighbors) =
             Cardinality({rooms[a].neighbors[k] :
                            k \in 1..Len(rooms[a].neighbors)})

C17_Witness ==
    /\ pc = "populate"
    /\ n = 4
    /\ \A a \in Ids : Len(rooms[a].neighbors) = 3

\* C18 as stated: at a door prompt, the session load_game builds from what save_game
\* writes has, room by room, the same neighbor list in the same order, and
\* saving it again gives the same words.
C18_LoadOrder ==
    pc = "prompt" =>
      LET L == Reloaded
      IN  /\ \A id \in Ids : L.rooms[id].neighbors = rooms[id].neighbors
          /\ save_game(L.n, L.player, L.rooms) = save_game(n, player, rooms)

\* list s from its last element to its first
Reverse(s) == [k \in 1..Len(s) |-> s[Len(s) + 1 - k]]

\* C18 as amended: at a door prompt, the session load_game builds from what
\* save_game writes has, room by room, the saved list in reverse order (same
\* ids, same multiplicity); saving and loading that session once more gives
\* the lists in their first order.
C18_LoadReversed ==
    [](pc = "prompt" =>
         LET L == Reloaded
             L2 == load_game(save_game(L.n, L.player, L.rooms))
         IN  \A id \in Ids :
               /\ L.rooms[id].neighbors = Reverse(rooms[id].neighbors)
               /\ L2.rooms[id].neighbors = rooms[id].neighbors)

C18_Witness ==
    /\ pc = "loop"
    /\ last = "load"
    /\ n = 3
    /\ rooms[0].neighbors = <<1, 2>>

\* C19: in the session load_game returns for a save made during play, the
\* player's room is visited, Empty (handler enter_empty) and not the
\* treasure room, and the room entry that follows goes to the door prompt
\* without changing a room or the player.
C19_ResumeNoEffect ==
    /\ [](pc = "loop" /\ last = "load" =>
            /\ cur \in Ids
            /\ rooms[cur].visited # 0
            /\ rooms[cur].content_type = NONE
            /\ rooms[cur].content = NULL
            /\ rooms[cur].enter = "enter_empty")
    /\ [][(pc = "loop" /\ last = "load") =>
            (pc' = "prompt" /\ rooms' = rooms /\ player' = player
             /\ n' = n /\ consumed' = consumed)]_vars

C19_Witness ==
    /\ pc = "loop"
    /\ last = "load"
    /\ cur # 0
    /\ cur \in consumed
    /\ \E id \in Ids : rooms[id].content_type = TREASURE

\* C20: when the fight loop has ended exactly one of player and monster has
\* hp <= 0; fight hands back to enter_monster only with the monster down and
\* the player alive; the player's hp is positive at every door prompt.
C20_OneLoser ==
    /\ []((pc = "fight" /\ ~BothAlive) =>
            ((player.hp <= 0) # (mon.hp <= 0)))
    /\ [](pc = "dead" => (player.hp <= 0 /\ mon.hp > 0))
    /\ [][(pc = "fight" /\ pc' = "prompt") =>
            (mon.hp <= 0 /\ player.hp > 0 /\ player' = player)]_vars
    /\ [](pc = "prompt" => player.hp > 0)

C20_Witness ==
    /\ pc = "prompt"
    /\ last = "fight_won"
    /\ player.hp > 0
    /\ player.hp < 20
    /\ cur \in consumed

====
